---- MODULE Spec2Model ----
(***************************************************************************)
(* TidalBot execution core.                                                *)
(*                                                                         *)
(*   Spec        the Order Ledger (core/order_manager.py, OrderManager)    *)
(*               under arbitrary callers and one auto-cancel task.         *)
(*   SpecSync    the ledger's position caches beside one sync task.        *)
(*   SpecBT      the event queue and dispatcher (engine/backtester.py).    *)
(*   SpecSignal  the Signal handler over portfolios that hold positions.   *)
(*   SpecPerf    _calculate_performance over trade ledgers.                *)
(*   SpecExec    the orchestrator (core/strategy_executor.py) and its      *)
(*               submission and monitor tasks.                             *)
(*                                                                         *)
(* Python objects are references: the ledger's two maps hold references    *)
(* into `heap`, so a mutation made through the active map is seen through  *)
(* the history map exactly when both hold the same Order object.           *)
(***************************************************************************)
EXTENDS Integers, Sequences, FiniteSets, TLC

VARIABLES
    heap,             \* the Order objects the ledger holds; a reference is an index
    active_orders,    \* OrderManager.active_orders: insertion-ordered dict order_id -> reference
    order_history,    \* OrderManager.order_history: insertion-ordered dict order_id -> reference
    positions,        \* OrderManager.positions: [attr: does the attribute exist, map: its dict]
    spot_balances,    \* OrderManager.spot_balances, likewise
    clock,            \* datetime.now(), in seconds
    ret,              \* outcome of the last create/update/cancel call
    ac,               \* the auto_cancel_orders coroutine: position, orders_to_cancel still to do,
                      \* and the orders that were active and older than 30 s when the scan began
    exchange_cancels, \* exchange.cancel_order invocations made by the current scan, per order_id
    sync,             \* the sync_positions coroutine: position and what the exchange reported
    event_queue,      \* Backtester.event_queue: the list heapq keeps as a binary heap
    handlers,         \* Backtester.handlers: the event types a handler is bound to
    portfolio,        \* Backtester.portfolio: cash and positions
    trades,           \* Backtester.trades
    last_time,        \* Backtester.last_time
    run_state,        \* "setup" before run(), then "running", "done", or the exception leaving run()
    pushed,           \* number of add_event calls so far; each event carries its number as `seq`
    dispatched,       \* the events run() has popped, in order
    perf,             \* what _calculate_performance computed and printed
    unlocked,         \* the ledger operations that assigned into a ledger map outside `async with self._lock`
    tasks,            \* the asyncio tasks StrategyExecutor has spawned, in order of creation
    registry,         \* StrategyExecutor.active_orders: insertion-ordered dict order_id -> task
    signal_ret,       \* outcome of the last process_signal call
    stopped           \* stop() has been called

ledgerVars == <<heap, active_orders, order_history, positions, spot_balances, clock, ret,
                ac, exchange_cancels, sync, unlocked>>

btVars == <<event_queue, handlers, portfolio, trades, last_time, run_state, pushed, dispatched,
            perf>>

execVars == <<tasks, registry, signal_ret, stopped>>

vars == <<ledgerVars, btVars, execVars>>

-----------------------------------------------------------------------------
(* Bounds *)

MaxOrders == 2       \* Order objects handed to the ledger in one behaviour
MaxOrderId == 2      \* order ids are 1..MaxOrderId
MaxClock == 31       \* the clock stops here
MaxReport == 1       \* entries in one exchange.get_positions() answer
MaxEvents == 3       \* events the caller pushes before run()
MaxTime == 2         \* event timestamps are 1..MaxTime
MaxSubmits == 2      \* _submit_order tasks started in one behaviour
MaxPolls == 2        \* get_order_status calls one monitor makes
MaxTrades == 3       \* trades in a ledger handed to _calculate_performance

OrderIds == 1..MaxOrderId

-----------------------------------------------------------------------------
(* Enumerations of order_manager.py *)

LIMIT == "limit"
MARKET == "market"
STOP_LOSS == "stop_loss"
TAKE_PROFIT == "take_profit"
OrderType == {LIMIT, MARKET, STOP_LOSS, TAKE_PROFIT}

SPOT == "spot"
PERPETUAL == "perpetual"
TradeType == {SPOT, PERPETUAL}

\* OrderStatus.NEW (NEW is a reserved word)
STATUS_NEW == "new"
PARTIALLY_FILLED == "partially_filled"
FILLED == "filled"
CANCELED == "canceled"
REJECTED == "rejected"
EXPIRED == "expired"
OrderStatus == {STATUS_NEW, PARTIALLY_FILLED, FILLED, CANCELED, REJECTED, EXPIRED}

\* The statuses update_order_status removes from the active map (line 90).
RemovedOnUpdate == {FILLED, CANCELED, REJECTED}

None == "None"
\* An attribute no statement has assigned: reading it raises AttributeError
NoAttr == [attr |-> FALSE, map |-> <<>>]
AttributeError == "AttributeError"
ExchangeError == "ExchangeError"

\* _should_auto_cancel: seconds after which an order is cancelled (line 137).
AUTO_CANCEL_AGE == 30
\* MIN_MAINTENANCE_MARGIN = 0.05, in hundredths (line 43).
MIN_MAINTENANCE_MARGIN == 5

-----------------------------------------------------------------------------
(* Python dict: insertion-ordered, as a sequence of [k, v] entries *)

Keys(d) == {d[i].k : i \in DOMAIN d}

InDict(d, k) == k \in Keys(d)

Get(d, k) == d[CHOOSE i \in DOMAIN d : d[i].k = k].v

\* d[k] = v: an existing key keeps its place
Put(d, k, v) ==
    IF InDict(d, k)
    THEN [i \in DOMAIN d |-> IF d[i].k = k THEN [k |-> k, v |-> v] ELSE d[i]]
    ELSE Append(d, [k |-> k, v |-> v])

\* d.pop(k)
Pop(d, k) == SelectSeq(d, LAMBDA e : e.k # k)

-----------------------------------------------------------------------------
(* class Order.  A caller constructs an Order with the defaults of lines 36-40: *)
(* status NEW, created_at = now, nothing filled.  updated_at is written by the  *)
(* ledger and read by nothing; it is not a field of the model.                  *)

Order(id, otype, ttype, qty, price, lev) ==
    [order_id |-> id, symbol |-> "BTC", order_type |-> otype, trade_type |-> ttype,
     side |-> "buy", quantity |-> qty, price |-> price, stop_price |-> price,
     leverage |-> lev, status |-> STATUS_NEW, created_at |-> clock,
     filled_quantity |-> 0, avg_price |-> 0]

\* The orders callers submit: spot limit and stop orders, and the perpetual
\* order of the margin scenario (quantity 10, price 100, leverage 5).
OrderInputs ==
    {Order(id, t[1], t[2], 10, 100, t[3]) :
        id \in OrderIds,
        t \in {<<LIMIT, SPOT, 1>>, <<STOP_LOSS, SPOT, 1>>, <<LIMIT, PERPETUAL, 5>>}}

\* (filled_quantity, avg_price) pairs an update carries
FillInputs == {<<0, 0>>, <<10, 100>>}

\* What the last call was given and what it returned: `trade_type` and
\* `required` are the trade type and the required margin of the order handed to
\* create_order; `result` is "order" (the Order object, which is heap[ref]),
\* "True", "False", None, or the exception that left the call.
Ret(op, id, risk, result, ref) ==
    [op |-> op, id |-> id, risk |-> risk, result |-> result, ref |-> ref,
     trade_type |-> None, required |-> 0]

-----------------------------------------------------------------------------
(* OrderManager *)

\* calculate_required_margin: quantity * price / leverage for a perpetual order.
\* The inputs of the model divide exactly.
calculate_required_margin(order) ==
    IF order.trade_type = PERPETUAL
    THEN (order.quantity * order.price) \div order.leverage
    ELSE 0

\* self.positions.get(symbol, {}).get('margin', 0)
PositionMargin(symbol) ==
    IF symbol \in DOMAIN positions.map THEN positions.map[symbol].margin ELSE 0

\* position.get('margin', 0) < required_margin * 1.1, in tenths
MarginInsufficient(order) ==
    PositionMargin(order.symbol) * 10 < calculate_required_margin(order) * 11

\* get_order: the active map first, then history
get_order(id) ==
    IF InDict(active_orders, id) THEN Get(active_orders, id)
    ELSE IF InDict(order_history, id) THEN Get(order_history, id)
    ELSE 0

\* What create_order returns for `order`
CreateRet(order, risk_ok, result, ref) ==
    [Ret("create_order", order.order_id, risk_ok, result, ref)
        EXCEPT !.trade_type = order.trade_type,
               !.required = calculate_required_margin(order)]

\* RejectOrder without the `return order` of line 57: the rejected order falls
\* through to line 71 and enters the active map.
RejectOrderFallsThrough(order, risk_ok) ==
    LET ref == Len(heap) + 1
    IN  /\ heap' = Append(heap, [order EXCEPT !.status = REJECTED])
        /\ order_history' = Put(order_history, order.order_id, ref)
        /\ active_orders' = Put(active_orders, order.order_id, ref)
        /\ ret' = CreateRet(order, risk_ok, "order", ref)

\* lines 54-57 and 66-69: mark REJECTED, record in history, return the order
RejectOrder(order, risk_ok) ==
    LET ref == Len(heap) + 1
    IN  /\ heap' = Append(heap, [order EXCEPT !.status = REJECTED])
        /\ order_history' = Put(order_history, order.order_id, ref)
        /\ active_orders' = active_orders
        /\ ret' = CreateRet(order, risk_ok, "order", ref)

\* AcceptOrder without line 72: the accepted order is not recorded in history.
AcceptOrderUnrecorded(order, risk_ok) ==
    LET ref == Len(heap) + 1
    IN  /\ heap' = Append(heap, order)
        /\ active_orders' = Put(active_orders, order.order_id, ref)
        /\ order_history' = order_history
        /\ ret' = CreateRet(order, risk_ok, "order", ref)

\* lines 71-73: insert into both maps, return the order
AcceptOrder(order, risk_ok) ==
    LET ref == Len(heap) + 1
    IN  /\ heap' = Append(heap, order)
        /\ active_orders' = Put(active_orders, order.order_id, ref)
        /\ order_history' = Put(order_history, order.order_id, ref)
        /\ ret' = CreateRet(order, risk_ok, "order", ref)

\* `op` runs a statement that assigns into one of the ledger's maps; `locked`
\* tells whether the statement stands inside an `async with self._lock` block.
\* No locked block contains an await, so a locked block is one step.
Written(op, locked) == IF locked THEN unlocked ELSE unlocked \cup {op}

create_order(order, risk_ok) ==
    /\ Len(heap) < MaxOrders
    /\ IF ~risk_ok
       THEN RejectOrder(order, risk_ok)
       ELSE IF order.trade_type = PERPETUAL /\ ~positions.attr
       THEN \* line 62 reads self.positions, which __init__ never creates
            /\ UNCHANGED <<heap, order_history, active_orders>>
            /\ ret' = CreateRet(order, risk_ok, AttributeError, 0)
       ELSE IF order.trade_type = PERPETUAL /\ MarginInsufficient(order)
       THEN RejectOrder(order, risk_ok)
       ELSE AcceptOrder(order, risk_ok)
    /\ unlocked' = Written("create_order", TRUE)
    /\ UNCHANGED <<positions, spot_balances, clock, ac, exchange_cancels, sync, btVars, execVars>>

update_order_status(id, status, filled_quantity, avg_price) ==
    /\ IF InDict(active_orders, id)
       THEN LET ref == Get(active_orders, id)
            IN  /\ heap' = [heap EXCEPT ![ref].status = status,
                                        ![ref].filled_quantity = filled_quantity,
                                        ![ref].avg_price = avg_price]
                /\ active_orders' = IF status \in RemovedOnUpdate
                                    THEN Pop(active_orders, id)
                                    ELSE active_orders
                /\ ret' = Ret("update_order_status", id, TRUE, "order", ref)
       ELSE /\ UNCHANGED <<heap, active_orders>>
            /\ ret' = Ret("update_order_status", id, TRUE, None, 0)
    /\ unlocked' = Written("update_order_status", TRUE)
    /\ UNCHANGED <<order_history, positions, spot_balances, clock, ac, exchange_cancels, sync,
                   btVars, execVars>>

\* The body of cancel_order, as the state it leaves
CancelHeap(id) ==
    IF InDict(active_orders, id)
    THEN [heap EXCEPT ![Get(active_orders, id)].status = CANCELED]
    ELSE heap

CancelActive(id) ==
    IF InDict(active_orders, id) THEN Pop(active_orders, id) ELSE active_orders

cancel_order(id) ==
    /\ heap' = CancelHeap(id)
    /\ active_orders' = CancelActive(id)
    /\ ret' = IF InDict(active_orders, id)
              THEN Ret("cancel_order", id, TRUE, "True", Get(active_orders, id))
              ELSE Ret("cancel_order", id, TRUE, "False", 0)
    /\ unlocked' = Written("cancel_order", TRUE)
    /\ UNCHANGED <<order_history, positions, spot_balances, clock, ac, exchange_cancels, sync,
                   btVars, execVars>>

\* _should_auto_cancel: "True", "False", or the exception it raises
should_auto_cancel(order) ==
    IF clock - order.created_at > AUTO_CANCEL_AGE
    THEN "True"
    ELSE IF order.trade_type = PERPETUAL /\ ~positions.attr
    THEN AttributeError          \* line 142 reads self.positions
    ELSE IF /\ order.trade_type = PERPETUAL
            /\ order.symbol \in DOMAIN positions.map
            /\ positions.map[order.symbol].margin * 100 < MIN_MAINTENANCE_MARGIN
    THEN "True"
    ELSE IF order.order_type \in {STOP_LOSS, TAKE_PROFIT}
    THEN AttributeError          \* line 148 calls self.get_mark_price, which no class defines
    ELSE "False"

\* auto_cancel_orders up to its first suspension: the list comprehension of
\* lines 126-129, then the first `await exchange.cancel_order(order_id)`.
auto_cancel_orders ==
    LET verdict(i) == should_auto_cancel(heap[active_orders[i].v])
        raises == \E i \in DOMAIN active_orders : verdict(i) = AttributeError
        picked == SelectSeq(active_orders, LAMBDA e : should_auto_cancel(heap[e.v]) = "True")
        orders_to_cancel == [i \in DOMAIN picked |-> picked[i].k]
        none == [id \in OrderIds |-> 0]
        stale == {active_orders[i].v : i \in {j \in DOMAIN active_orders :
                        clock - heap[active_orders[j].v].created_at > AUTO_CANCEL_AGE}}
    IN  /\ ac.pc # "exchange"
        /\ IF raises
           THEN /\ ac' = [pc |-> AttributeError, todo |-> <<>>, stale |-> stale]
                /\ exchange_cancels' = none
           ELSE IF orders_to_cancel = <<>>
           THEN /\ ac' = [pc |-> "done", todo |-> <<>>, stale |-> stale]
                /\ exchange_cancels' = none
           ELSE /\ ac' = [pc |-> "exchange", todo |-> orders_to_cancel,
                          stale |-> stale]
                /\ exchange_cancels' = [none EXCEPT ![Head(orders_to_cancel)] = 1]
        /\ UNCHANGED <<heap, active_orders, order_history, positions, spot_balances, clock,
                       ret, sync, unlocked, btVars, execVars>>

\* The exchange answers the pending cancel: on success line 132 cancels the
\* order locally and the loop goes on to the next exchange call; a failure
\* leaves the coroutine by the exception.
auto_cancel_resume(ok) ==
    LET id == Head(ac.todo)
        rest == Tail(ac.todo)
    IN  /\ ac.pc = "exchange"
        /\ IF ~ok
           THEN /\ ac' = [ac EXCEPT !.pc = ExchangeError]
                /\ UNCHANGED <<heap, active_orders, exchange_cancels>>
           ELSE /\ heap' = CancelHeap(id)
                /\ active_orders' = CancelActive(id)
                /\ IF rest = <<>>
                   THEN /\ ac' = [ac EXCEPT !.pc = "done", !.todo = rest]
                        /\ UNCHANGED exchange_cancels
                   ELSE /\ ac' = [ac EXCEPT !.todo = rest]
                        /\ exchange_cancels' =
                             [exchange_cancels EXCEPT ![Head(rest)] = @ + 1]
        /\ unlocked' = Written("auto_cancel_orders", TRUE)
        /\ UNCHANGED <<order_history, positions, spot_balances, clock, ret, sync, btVars, execVars>>

-----------------------------------------------------------------------------
(* sync_positions *)

\* What exchange.get_positions() may answer: lists of at most MaxReport entries
PositionEntries ==
    {[type |-> PERPETUAL, symbol |-> "BTC", positionAmt |-> 1, entryPrice |-> 100,
      leverage |-> 5, isolatedMargin |-> 250],
     [type |-> SPOT, symbol |-> "ETH", positionAmt |-> 1, entryPrice |-> 100,
      leverage |-> 1, isolatedMargin |-> 0]}

PositionReports == UNION {[1..n -> PositionEntries] : n \in 0..MaxReport}

\* What exchange.get_spot_balances() may answer
SpotReports == {<<>>, [a \in {"USDT"} |-> 100]}

\* lines 111-118 on an existing positions map
RECURSIVE StorePositions(_, _)
StorePositions(pos, report) ==
    IF report = <<>> THEN pos
    ELSE LET p == Head(report)
             entry == [quantity |-> p.positionAmt, entry_price |-> p.entryPrice,
                       leverage |-> p.leverage, margin |-> p.isolatedMargin]
             stored == IF p.type = PERPETUAL
                       THEN [s \in DOMAIN pos \cup {p.symbol} |->
                               IF s = p.symbol THEN entry ELSE pos[s]]
                       ELSE pos
         IN  StorePositions(stored, Tail(report))

\* lines 121-122 on an existing spot_balances map
StoreBalances(bal, report) ==
    [a \in DOMAIN bal \cup DOMAIN report |-> IF a \in DOMAIN report THEN report[a] ELSE bal[a]]

HasPerpetual(report) == \E i \in DOMAIN report : report[i].type = PERPETUAL

\* sync_positions up to `await exchange.get_positions()`
sync_positions ==
    /\ sync.pc # "get_positions" /\ sync.pc # "get_spot_balances"
    /\ sync' = [pc |-> "get_positions", positions |-> <<>>, balances |-> <<>>]
    /\ UNCHANGED <<heap, active_orders, order_history, positions, spot_balances, clock, ret,
                   ac, exchange_cancels, unlocked, btVars, execVars>>

\* get_positions() answers; lines 111-118 run up to `await exchange.get_spot_balances()`
sync_got_positions(ok, report) ==
    /\ sync.pc = "get_positions"
    /\ IF ~ok
       THEN sync' = [sync EXCEPT !.pc = ExchangeError] /\ UNCHANGED positions
       ELSE IF HasPerpetual(report) /\ ~positions.attr
       THEN \* line 113 subscripts self.positions, which __init__ never creates
            /\ sync' = [sync EXCEPT !.pc = AttributeError, !.positions = report]
            /\ UNCHANGED positions
       ELSE /\ sync' = [sync EXCEPT !.pc = "get_spot_balances", !.positions = report]
            /\ positions' = IF HasPerpetual(report)
                            THEN [positions EXCEPT !.map = StorePositions(@, report)]
                            ELSE positions
    /\ unlocked' = IF ok /\ HasPerpetual(report)
                   THEN Written("sync_positions", FALSE)   \* line 113 is run, no lock is taken
                   ELSE unlocked
    /\ UNCHANGED <<heap, active_orders, order_history, spot_balances, clock, ret, ac,
                   exchange_cancels, btVars, execVars>>

\* get_spot_balances() answers; lines 121-122 run and the coroutine returns
sync_got_balances(ok, report) ==
    /\ sync.pc = "get_spot_balances"
    /\ IF ~ok
       THEN sync' = [sync EXCEPT !.pc = ExchangeError] /\ UNCHANGED spot_balances
       ELSE IF report # <<>> /\ ~spot_balances.attr
       THEN \* line 122 subscripts self.spot_balances, which __init__ never creates
            /\ sync' = [sync EXCEPT !.pc = AttributeError, !.balances = report]
            /\ UNCHANGED spot_balances
       ELSE /\ sync' = [sync EXCEPT !.pc = "done", !.balances = report]
            /\ spot_balances' = IF report # <<>>
                                THEN [spot_balances EXCEPT !.map = StoreBalances(@, report)]
                                ELSE spot_balances
    /\ unlocked' = IF ok /\ report # <<>>
                   THEN Written("sync_positions", FALSE)   \* line 122 is run, no lock is taken
                   ELSE unlocked
    /\ UNCHANGED <<heap, active_orders, order_history, positions, clock, ret, ac,
                   exchange_cancels, btVars, execVars>>

-----------------------------------------------------------------------------
(* Time passes between calls *)

Tick(d) ==
    /\ clock + d <= MaxClock
    /\ clock' = clock + d
    /\ UNCHANGED <<heap, active_orders, order_history, positions, spot_balances, ret, ac,
                   exchange_cancels, sync, unlocked, btVars, execVars>>

-----------------------------------------------------------------------------
(* The ledger after OrderManager.__init__ (lines 45-48): two empty maps and a *)
(* lock; positions and spot_balances are not assigned.                        *)

LedgerInit ==
    /\ heap = <<>>
    /\ active_orders = <<>>
    /\ order_history = <<>>
    /\ positions = NoAttr
    /\ spot_balances = NoAttr
    /\ clock = 0
    /\ ret = Ret("init", 0, TRUE, None, 0)
    /\ ac = [pc |-> "idle", todo |-> <<>>, stale |-> {}]
    /\ exchange_cancels = [id \in OrderIds |-> 0]
    /\ sync = [pc |-> "idle", positions |-> <<>>, balances |-> <<>>]
    /\ unlocked = {}

-----------------------------------------------------------------------------
(* engine/backtester.py: events *)

\* EVENT_TYPES (lines 10-15)
EVENT_TYPES == [MARKET |-> 0, SIGNAL |-> 1, ORDER |-> 2, LOG |-> 3]

EventTypeNames == {"MARKET", "SIGNAL", "ORDER", "LOG"}

\* portfolio['cash'] at construction (line 75)
INITIAL_CASH == 100000
\* quantity of the order a buy signal places (line 115)
BUY_QUANTITY == 100

NameError == "NameError"
ValueError == "ValueError"

\* Event.__init__; `seq` is the number of the add_event call that pushed the
\* event. The code keeps no such field: nothing below reads it but the
\* properties.
Event(event_type, timestamp, data) ==
    [type |-> event_type, timestamp |-> timestamp, data |-> data, seq |-> 0]

MarketDataEvent(symbol, price, timestamp) ==
    Event("MARKET", timestamp, [symbol |-> symbol, price |-> price])

SignalEvent(symbol, signal, timestamp) ==
    Event("SIGNAL", timestamp, [symbol |-> symbol, signal |-> signal])

OrderEvent(symbol, order_type, quantity, side, timestamp) ==
    Event("ORDER", timestamp,
          [symbol |-> symbol, order_type |-> order_type, quantity |-> quantity, side |-> side])

\* An Order event whose data carries the two keys on_order reads beside those
\* of the constructor (lines 145, 148; OrderEvent.execute, lines 65-66, is
\* written to set them)
PricedOrderEvent(symbol, quantity, side, trade_price, timestamp) ==
    Event("ORDER", timestamp,
          [symbol |-> symbol, order_type |-> "market", quantity |-> quantity, side |-> side,
           filled_quantity |-> quantity, trade_price |-> trade_price])

LogEvent(message, timestamp) == Event("LOG", timestamp, [message |-> message])

\* Event.__lt__ (line 28): tuple comparison of (timestamp, EVENT_TYPES[type])
Lt(self, other) ==
    \/ self.timestamp < other.timestamp
    \/ /\ self.timestamp = other.timestamp
       /\ EVENT_TYPES[self.type] < EVENT_TYPES[other.type]

-----------------------------------------------------------------------------
(* heapq on a list, positions counted from 1: the parent of p is p \div 2 and *)
(* its children are 2p and 2p + 1.                                            *)

\* heapq._siftdown(heap, startpos, pos) with newitem held aside
RECURSIVE SiftDown(_, _, _, _)
SiftDown(h, startpos, pos, newitem) ==
    IF pos > startpos /\ Lt(newitem, h[pos \div 2])
    THEN SiftDown([h EXCEPT ![pos] = h[pos \div 2]], startpos, pos \div 2, newitem)
    ELSE [h EXCEPT ![pos] = newitem]

\* the loop of heapq._siftup: bubble the smaller child up until a leaf is hit
RECURSIVE SiftUpLoop(_, _)
SiftUpLoop(h, pos) ==
    LET childpos == 2 * pos
        rightpos == childpos + 1
        pick == IF rightpos <= Len(h) /\ ~Lt(h[childpos], h[rightpos])
                THEN rightpos ELSE childpos
    IN  IF childpos <= Len(h)
        THEN SiftUpLoop([h EXCEPT ![pos] = h[pick]], pick)
        ELSE <<h, pos>>

\* heapq._siftup(heap, 0)
SiftUp(h) ==
    LET r == SiftUpLoop(h, 1)
    IN  SiftDown(r[1], 1, r[2], h[1])

\* heapq.heappush
heappush(h, item) == SiftDown(Append(h, item), 1, Len(h) + 1, item)

\* heapq.heappop: <<the item returned, the heap left>>
heappop(h) ==
    LET lastelt == h[Len(h)]
        rest == SubSeq(h, 1, Len(h) - 1)
    IN  IF rest = <<>>
        THEN <<lastelt, rest>>
        ELSE <<h[1], SiftUp([rest EXCEPT ![1] = lastelt])>>

-----------------------------------------------------------------------------
(* class Backtester *)

Symbols == {"AAPL"}

\* The events a caller pushes
EventsAt(t) ==
    {MarketDataEvent(s, price, t) : s \in Symbols, price \in {100, 110}}
    \cup {SignalEvent(s, sig, t) : s \in Symbols, sig \in {-1, 0, 1}}
    \cup {OrderEvent(s, "market", BUY_QUANTITY, "buy", t) : s \in Symbols}
    \cup {PricedOrderEvent(s, BUY_QUANTITY, side, 100, t) : s \in Symbols, side \in {"buy", "sell"}}
    \cup {LogEvent("m", t)}

EventInputs == UNION {EventsAt(t) : t \in 1..MaxTime}

\* add_event as the state it leaves: the queue and the push counter
Pushed(queue, n, event) == <<heappush(queue, [event EXCEPT !.seq = n + 1]), n + 1>>

add_event(event) ==
    /\ run_state = "setup"
    /\ pushed < MaxEvents
    /\ event_queue' = Pushed(event_queue, pushed, event)[1]
    /\ pushed' = Pushed(event_queue, pushed, event)[2]
    /\ UNCHANGED <<handlers, portfolio, trades, last_time, run_state, dispatched, perf, ledgerVars, execVars>>

bind_handler(event_type) ==
    /\ run_state = "setup"
    /\ event_type \notin handlers
    /\ handlers' = handlers \cup {event_type}
    /\ UNCHANGED <<event_queue, portfolio, trades, last_time, run_state, pushed, dispatched, perf,
                   ledgerVars, execVars>>

\* What a handler is given and what it leaves: the queue, the push counter,
\* the portfolio, the trades, and the exception it raises, if any
Outcome(queue, n, pf, tr, raised) ==
    [queue |-> queue, pushed |-> n, portfolio |-> pf, trades |-> tr, raised |-> raised]

on_market_data(event, b) == b

\* on_signal with the quantity of line 115 also at line 127: the sell order is
\* of the default size, not of the position held.
on_signal_SellsDefaultSize(event, b) ==
    LET symbol == event.data.symbol
        signal == event.data.signal
        position == b.portfolio.positions[symbol]
        buy == OrderEvent(symbol, "market", BUY_QUANTITY, "buy", event.timestamp)
        sell == OrderEvent(symbol, "market", BUY_QUANTITY, "sell", event.timestamp)
    IN  IF signal = 1
        THEN [b EXCEPT !.queue = Pushed(b.queue, b.pushed, buy)[1],
                       !.pushed = Pushed(b.queue, b.pushed, buy)[2]]
        ELSE IF signal = -1 /\ position > 0
        THEN [b EXCEPT !.queue = Pushed(b.queue, b.pushed, sell)[1],
                       !.pushed = Pushed(b.queue, b.pushed, sell)[2]]
        ELSE b

on_signal(event, b) ==
    LET symbol == event.data.symbol
        signal == event.data.signal
        position == b.portfolio.positions[symbol]
        buy == OrderEvent(symbol, "market", BUY_QUANTITY, "buy", event.timestamp)
        sell == OrderEvent(symbol, "market", position, "sell", event.timestamp)
    IN  IF signal = 1
        THEN [b EXCEPT !.queue = Pushed(b.queue, b.pushed, buy)[1],
                       !.pushed = Pushed(b.queue, b.pushed, buy)[2]]
        ELSE IF signal = -1 /\ position > 0
        THEN [b EXCEPT !.queue = Pushed(b.queue, b.pushed, sell)[1],
                       !.pushed = Pushed(b.queue, b.pushed, sell)[2]]
        ELSE b

\* on_order: line 144 raises when the event carries no trade price; otherwise
\* the cash is updated (lines 153, 156) and the next line reads `symbol`, a name
\* bound neither in the method nor in the module.
\* (on_order_FillsUnpriced: the handler filling every order at its quantity,
\* priced or not.)
on_order_FillsUnpriced(event, b) ==
    LET symbol == event.data.symbol
        quantity == event.data.quantity
    IN  [b EXCEPT !.portfolio.positions[symbol] =
                     IF event.data.side = "buy" THEN @ + quantity ELSE @ - quantity]

on_order(event, b) ==
    IF "trade_price" \notin DOMAIN event.data
    THEN [b EXCEPT !.raised = ValueError]
    ELSE LET cost == event.data.trade_price * event.data.filled_quantity
             cash == IF event.data.side = "buy"
                     THEN b.portfolio.cash - cost
                     ELSE b.portfolio.cash + cost
         IN  [b EXCEPT !.portfolio.cash = cash, !.raised = NameError]

on_log(event, b) == b

\* lines 94-97: the bound handler, or the print to sys.stderr of a module
\* that never imports sys
Dispatch(event, b) ==
    IF event.type \notin handlers THEN [b EXCEPT !.raised = NameError]
    ELSE IF event.type = "MARKET" THEN on_market_data(event, b)
    ELSE IF event.type = "SIGNAL" THEN on_signal(event, b)
    ELSE IF event.type = "ORDER" THEN on_order(event, b)
    ELSE on_log(event, b)

\* One turn of the loop of lines 87-97 on a non-empty queue
RunTurn(b) == Dispatch(heappop(b.queue)[1], [b EXCEPT !.queue = heappop(b.queue)[2]])

\* run(): one turn of the loop of lines 87-97
run ==
    /\ run_state \in {"setup", "running"}
    /\ IF event_queue = <<>>
       THEN /\ run_state' = "done"
            /\ UNCHANGED <<event_queue, portfolio, trades, last_time, pushed, dispatched>>
       ELSE LET event == heappop(event_queue)[1]
                out == RunTurn(Outcome(event_queue, pushed, portfolio, trades, None))
            IN  /\ last_time' = event.timestamp
                /\ dispatched' = Append(dispatched, event)
                /\ event_queue' = out.queue
                /\ pushed' = out.pushed
                /\ portfolio' = out.portfolio
                /\ trades' = out.trades
                /\ run_state' = IF out.raised = None THEN "running" ELSE out.raised
    /\ UNCHANGED <<handlers, perf, ledgerVars, execVars>>

\* run() from its call to its end: the events dispatched, the state left and
\* "done" or the exception that left the loop
RECURSIVE RunLoop(_, _)
RunLoop(b, popped) ==
    IF b.raised # None THEN [dispatched |-> popped, final |-> b, run_state |-> b.raised]
    ELSE IF b.queue = <<>> THEN [dispatched |-> popped, final |-> b, run_state |-> "done"]
    ELSE RunLoop(RunTurn(b), Append(popped, heappop(b.queue)[1]))

\* The fraction num/den, den > 0; the code computes in floats
Ratio(num, den) == [num |-> num, den |-> den]

\* Before _calculate_performance has run nothing is printed
NoPerformance == [printed |-> FALSE, total_return |-> Ratio(0, 1), max_drawdown |-> Ratio(0, 1)]

\* Backtester.__init__ (lines 72-77)
BacktesterInit ==
    /\ event_queue = <<>>
    /\ handlers = {}
    /\ portfolio = [cash |-> INITIAL_CASH, positions |-> [s \in Symbols |-> 0]]
    /\ trades = <<>>
    /\ last_time = None
    /\ run_state = "setup"
    /\ pushed = 0
    /\ dispatched = <<>>
    /\ perf = NoPerformance

\* The position of a symbol a portfolio may hold when run() is called
HeldPositions == {0 - 50, 0, 50}

\* A backtester as constructed, but for the positions its portfolio holds
SignalInit ==
    /\ event_queue = <<>>
    /\ handlers = {}
    /\ portfolio \in {[cash |-> INITIAL_CASH, positions |-> held] :
                         held \in [Symbols -> HeldPositions]}
    /\ trades = <<>>
    /\ last_time = None
    /\ run_state = "setup"
    /\ pushed = 0
    /\ dispatched = <<>>
    /\ perf = NoPerformance

-----------------------------------------------------------------------------
(* class BacktesterWithStrategy: performance *)

\* A record of self.trades (lines 160-167)
Trade(timestamp, symbol, side, price, quantity) ==
    [timestamp |-> timestamp, symbol |-> symbol, side |-> side, price |-> price,
     quantity |-> quantity,
     cash_change |-> IF side = "buy" THEN 0 - price * quantity ELSE price * quantity]

\* sum(trade['cash_change'] for trade in tr)
RECURSIVE SumCashChange(_)
SumCashChange(tr) ==
    IF tr = <<>> THEN 0 ELSE Head(tr).cash_change + SumCashChange(Tail(tr))

\* _calculate_performance (lines 221-233), as the two values lines 232-233
\* print.  Each turn of the loop of lines 227-229 assigns cash_change and
\* current_cash (the filter of line 229 compares an index with itself, so the
\* sum runs over all trades) and nothing else: max_drawdown and peak keep the
\* values of lines 224-225.
calculate_performance(cash, tr) ==
    LET total_return == Ratio(cash - INITIAL_CASH, INITIAL_CASH)
        max_drawdown == Ratio(0, 1)
        peak == INITIAL_CASH
        current_cash == INITIAL_CASH + SumCashChange(tr)
    IN  [printed |-> TRUE, total_return |-> total_return, max_drawdown |-> max_drawdown]

\* BacktesterWithStrategy.run (lines 214-219) after super().run() has returned
report_performance ==
    /\ run_state = "done"
    /\ ~perf.printed
    /\ perf' = calculate_performance(portfolio.cash, trades)
    /\ UNCHANGED <<event_queue, handlers, portfolio, trades, last_time, run_state, pushed,
                   dispatched, ledgerVars, execVars>>

\* The trades a ledger handed to _calculate_performance is made of
TradeInputs ==
    {Trade(0, "AAPL", "sell", 100, 50), Trade(0, "AAPL", "buy", 100, 100),
     Trade(0, "AAPL", "sell", 150, 100), Trade(0, "AAPL", "buy", 100, 50)}

\* Trade ledgers in time order
TradeLedgers ==
    {[i \in DOMAIN tr |-> [tr[i] EXCEPT !.timestamp = i]] :
        tr \in UNION {[1..k -> TradeInputs] : k \in 0..MaxTrades}}

\* The position lines 154 and 157 leave after the trades of a ledger
RECURSIVE NetPosition(_, _)
NetPosition(tr, symbol) ==
    IF tr = <<>> THEN 0
    ELSE NetPosition(Tail(tr), symbol)
         + (IF Head(tr).symbol # symbol THEN 0
            ELSE IF Head(tr).side = "buy" THEN Head(tr).quantity ELSE 0 - Head(tr).quantity)

\* A drained backtester whose cash is the initial cash plus the ledger's cash changes
PerformanceInit ==
    /\ event_queue = <<>>
    /\ handlers = EventTypeNames
    /\ trades \in TradeLedgers
    /\ portfolio = [cash |-> INITIAL_CASH + SumCashChange(trades),
                    positions |-> [s \in Symbols |-> NetPosition(trades, s)]]
    /\ last_time = None
    /\ run_state = "done"
    /\ pushed = 0
    /\ dispatched = <<>>
    /\ perf = NoPerformance

-----------------------------------------------------------------------------
(* core/strategy_executor.py: class StrategyExecutor.  The executor holds the *)
(* ledger above as self.order_mgr.  The exchange is the collaborator the      *)
(* coroutines are written against: place_order and get_order_status are       *)
(* awaited and answer or fail.  Between two steps every task stands at an     *)
(* await.                                                                     *)

UnboundLocalError == "UnboundLocalError"
TypeError == "TypeError"
KeyError == "KeyError"

SUBMIT == "_submit_order"
MONITOR == "_monitor_order_status"

\* The states after which the monitor leaves its loop (line 129)
MonitorTerminal == {FILLED, CANCELED, REJECTED}

\* status['state'] as the exchange may report it
ExchangeStates == {STATUS_NEW, FILLED, CANCELED}

\* An asyncio task: the coroutine it runs, the order it is about, the await it
\* stands at ("place_order", "get_order_status", "sleep") or how it ended
\* ("done", "cancelled", an exception), the get_order_status calls it has
\* made, the answers it has received and the last state an answer carried.
Task(coro, id, pc, polls) ==
    [coro |-> coro, order_id |-> id, pc |-> pc, polls |-> polls, answers |-> 0, last |-> None]

Suspended == {"place_order", "get_order_status", "sleep"}

\* process_signal (lines 60-89).  Line 65 raises ValueError when the gate
\* refuses.  When it approves, line 68 calls create_order(symbol=, action=,
\* quantity=, strategy_id=) on the method create_order(self, order,
\* risk_manager): the call raises TypeError before any coroutine exists, so
\* lines 76-81 are never run.  Either exception is caught at line 83, and line
\* 86 reads `order`, which no statement has bound: UnboundLocalError leaves
\* the coroutine.
process_signal(risk_ok) ==
    /\ signal_ret' = [op |-> "process_signal", risk |-> risk_ok,
                      caught |-> IF risk_ok THEN TypeError ELSE ValueError,
                      raised |-> UnboundLocalError]
    /\ UNCHANGED <<tasks, registry, stopped, ledgerVars, btVars>>

\* A caller schedules _submit_order(order) (lines 91-116) and the task runs to
\* its first await.  `has_action` tells whether the object has the attribute
\* `action` line 97 reads: the ledger's Order has `side` and no `action`, the
\* AttributeError is caught at line 115 and the task ends without a call to
\* the exchange.  Callers submit nothing once stop() has been called.
submit_order(id, has_action) ==
    /\ ~stopped
    /\ Cardinality({t \in DOMAIN tasks : tasks[t].coro = SUBMIT}) < MaxSubmits
    /\ tasks' = Append(tasks, Task(SUBMIT, id, IF has_action THEN "place_order" ELSE "done", 0))
    /\ UNCHANGED <<registry, signal_ret, stopped, ledgerVars, btVars>>

\* place_order answers task t.  A failure is caught and logged (lines 115-116),
\* which is all the handler does: the task ends normally, the model keeps the
\* exception it caught in the task's field last.  On
\* success line 103 calls the coroutine function update_order_status without
\* awaiting it: the coroutine object is dropped and its body never runs.  Line
\* 111 spawns the monitor, whose task object is kept nowhere; the monitor runs
\* to its first get_order_status call.
submit_placed(t, ok) ==
    /\ tasks[t].coro = SUBMIT /\ tasks[t].pc = "place_order"
    /\ tasks' = IF ok
                THEN Append([tasks EXCEPT ![t].pc = "done"],
                            Task(MONITOR, tasks[t].order_id, "get_order_status", 1))
                ELSE [tasks EXCEPT ![t].pc = "done", ![t].last = ExchangeError]
    /\ UNCHANGED <<registry, signal_ret, stopped, ledgerVars, btVars>>

\* get_order_status answers monitor t (lines 121-133).  A failure leaves the
\* loop by the exception: the loop has no try.  Line 122 calls
\* update_order_status without awaiting it, as line 103 does.  On a terminal
\* state line 130 deletes the registry entry of the order, KeyError if there is
\* none; otherwise the task sleeps.
monitor_poll(t, ok, state) ==
    LET id == tasks[t].order_id
        got == [tasks[t] EXCEPT !.answers = @ + 1, !.last = state]
    IN  /\ tasks[t].coro = MONITOR /\ tasks[t].pc = "get_order_status"
        /\ IF ~ok
           THEN /\ tasks' = [tasks EXCEPT ![t].pc = ExchangeError]
                /\ UNCHANGED registry
           ELSE IF state \notin MonitorTerminal
           THEN /\ tasks' = [tasks EXCEPT ![t] = [got EXCEPT !.pc = "sleep"]]
                /\ UNCHANGED registry
           ELSE IF InDict(registry, id)
           THEN /\ tasks' = [tasks EXCEPT ![t] = [got EXCEPT !.pc = "done"]]
                /\ registry' = Pop(registry, id)
           ELSE /\ tasks' = [tasks EXCEPT ![t] = [got EXCEPT !.pc = KeyError]]
                /\ UNCHANGED registry
        /\ UNCHANGED <<signal_ret, stopped, ledgerVars, btVars>>

\* asyncio.sleep(order_check_interval) returns (line 133): the next turn of the
\* loop calls get_order_status
monitor_wake(t) ==
    /\ tasks[t].coro = MONITOR /\ tasks[t].pc = "sleep"
    /\ tasks[t].polls < MaxPolls
    /\ tasks' = [tasks EXCEPT ![t].pc = "get_order_status", ![t].polls = @ + 1]
    /\ UNCHANGED <<registry, signal_ret, stopped, ledgerVars, btVars>>

\* The tasks stop() reaches: the values of self.active_orders
Registered == {registry[i].v : i \in DOMAIN registry}

\* stop (lines 135-139): task.cancel() for every task in the registry; a
\* suspended task is ended by CancelledError at its await
stop ==
    /\ ~stopped
    /\ stopped' = TRUE
    /\ tasks' = [t \in DOMAIN tasks |->
                   IF t \in Registered /\ tasks[t].pc \in Suspended
                   THEN [tasks[t] EXCEPT !.pc = "cancelled"]
                   ELSE tasks[t]]
    /\ UNCHANGED <<registry, signal_ret, ledgerVars, btVars>>

\* StrategyExecutor.__init__ (lines 40-51)
ExecutorInit ==
    /\ tasks = <<>>
    /\ registry = <<>>
    /\ signal_ret = [op |-> "init", risk |-> TRUE, caught |-> None, raised |-> None]
    /\ stopped = FALSE

-----------------------------------------------------------------------------
(* Specifications *)

Init == LedgerInit /\ BacktesterInit /\ ExecutorInit

\* The ledger under arbitrary callers and one auto-cancel task
Next ==
    \/ \E order \in OrderInputs, risk_ok \in BOOLEAN : create_order(order, risk_ok)
    \/ \E id \in OrderIds, status \in OrderStatus, fill \in FillInputs :
          update_order_status(id, status, fill[1], fill[2])
    \/ \E id \in OrderIds : cancel_order(id)
    \/ auto_cancel_orders
    \/ \E ok \in BOOLEAN : auto_cancel_resume(ok)
    \/ \E d \in {AUTO_CANCEL_AGE, AUTO_CANCEL_AGE + 1} : Tick(d)

Spec == Init /\ [][Next]_vars

\* The ledger's position caches: order creation and cancellation beside one
\* sync_positions task
NextSync ==
    \/ \E order \in OrderInputs, risk_ok \in BOOLEAN : create_order(order, risk_ok)
    \/ \E id \in OrderIds : cancel_order(id)
    \/ sync_positions
    \/ \E ok \in BOOLEAN, report \in PositionReports : sync_got_positions(ok, report)
    \/ \E ok \in BOOLEAN, report \in SpotReports : sync_got_balances(ok, report)

SpecSync == Init /\ [][NextSync]_vars

\* The backtest engine: handlers are bound, events pushed, then run() drains the queue
NextBT ==
    \/ \E event \in EventInputs : add_event(event)
    \/ \E event_type \in EventTypeNames : bind_handler(event_type)
    \/ run

SpecBT == Init /\ [][NextBT]_vars

\* The orchestrator: signals, submissions and their monitors beside callers
\* that create orders in the ledger
NextExec ==
    \/ \E order \in {o \in OrderInputs : o.trade_type = SPOT} : create_order(order, TRUE)
    \/ \E risk_ok \in BOOLEAN : process_signal(risk_ok)
    \/ \E id \in OrderIds, has_action \in BOOLEAN : submit_order(id, has_action)
    \/ \E t \in DOMAIN tasks, ok \in BOOLEAN : submit_placed(t, ok)
    \/ \E t \in DOMAIN tasks, ok \in BOOLEAN, state \in ExchangeStates : monitor_poll(t, ok, state)
    \/ \E t \in DOMAIN tasks : monitor_wake(t)
    \/ stop

SpecExec == Init /\ [][NextExec]_vars

\* The Signal handler: signals pushed and dispatched over the portfolios of SignalInit
NextSignal ==
    \/ \E event \in {e \in EventInputs : e.type = "SIGNAL"} : add_event(event)
    \/ \E event_type \in {"SIGNAL", "ORDER"} : bind_handler(event_type)
    \/ run

InitSignal == LedgerInit /\ SignalInit /\ ExecutorInit

SpecSignal == InitSignal /\ [][NextSignal]_vars

\* _calculate_performance on the trade ledgers of a drained backtester
InitPerf == LedgerInit /\ PerformanceInit /\ ExecutorInit

NextPerf == report_performance

SpecPerf == InitPerf /\ [][NextPerf]_vars

-----------------------------------------------------------------------------
(* Properties *)

\* The references the active map holds
ActiveRefs == {active_orders[i].v : i \in DOMAIN active_orders}

\* The terminal statuses of the specification's glossary
TerminalStatuses == {FILLED, CANCELED, REJECTED, EXPIRED}

\* The ordering key of the specification: (timestamp, type_priority, sequence_number)
KeyLeq(a, b) ==
    \/ a.timestamp < b.timestamp
    \/ /\ a.timestamp = b.timestamp
       /\ \/ EVENT_TYPES[a.type] < EVENT_TYPES[b.type]
          \/ /\ EVENT_TYPES[a.type] = EVENT_TYPES[b.type]
             /\ a.seq <= b.seq

\* C1: run() dispatches events in non-decreasing (timestamp, type_priority,
\* sequence_number) order; in particular events of one timestamp and one type
\* leave the queue in the order they were pushed.
C1_DispatchInKeyOrder ==
    \A i, j \in DOMAIN dispatched : i < j => KeyLeq(dispatched[i], dispatched[j])

\* C2: every order id in the active map is in the history map, and an id once
\* in history stays in history.
C2_ActiveInHistoryAppendOnly ==
    /\ [](Keys(active_orders) \subseteq Keys(order_history))
    /\ [][Keys(order_history) \subseteq Keys(order_history')]_vars

\* C2 witness: one order is active and another id has left the active map and
\* is still in history.
C2_Witness ==
    /\ active_orders # <<>>
    /\ Keys(order_history) \ Keys(active_orders) # {}
    /\ ret.op \in {"cancel_order", "update_order_status"}
    /\ ret.result \in {"True", "order"}

\* C3: no order in the active map has a terminal status (FILLED, CANCELED,
\* REJECTED or EXPIRED).
C3_NoTerminalActive ==
    \A ref \in ActiveRefs : heap[ref].status \notin TerminalStatuses

\* C4: once an order's status is terminal, no later step changes its status,
\* filled_quantity or avg_price.
C4_TerminalFrozen ==
    [][\A ref \in DOMAIN heap :
          heap[ref].status \in TerminalStatuses =>
             /\ heap'[ref].status = heap[ref].status
             /\ heap'[ref].filled_quantity = heap[ref].filled_quantity
             /\ heap'[ref].avg_price = heap[ref].avg_price]_vars

\* C5: cancel_order returns true, removes the order and marks it CANCELED when
\* the id is active; for an unknown id or an id whose order is already
\* terminal it returns false and leaves the maps and the orders as they were.
C5_CancelExactlyActive ==
    [][(ret' # ret /\ ret'.op = "cancel_order") =>
          LET id == ret'.id
              ref == get_order(id)
          IN  IF ref # 0 /\ heap[ref].status \notin TerminalStatuses /\ InDict(active_orders, id)
              THEN /\ ret'.result = "True"
                   /\ ~InDict(active_orders', id)
                   /\ heap'[ref].status = CANCELED
              ELSE /\ ret'.result = "False"
                   /\ UNCHANGED <<active_orders, order_history, heap>>]_vars

\* The margin the specification gives a symbol: that of its position, 0 if none is known
KnownMargin(symbol) ==
    IF positions.attr THEN PositionMargin(symbol) ELSE 0

\* C6: a risk-approved PERPETUAL order is REJECTED (in history, not active)
\* exactly when the position margin is below required_margin * 1.1, and is
\* otherwise inserted into both maps with status NEW.
C6_MarginGate ==
    (ret.op = "create_order" /\ ret.risk /\ ret.trade_type = PERPETUAL) =>
        /\ ret.result = "order"
        /\ InDict(order_history, ret.id) /\ Get(order_history, ret.id) = ret.ref
        /\ IF KnownMargin("BTC") * 10 < ret.required * 11
           THEN heap[ret.ref].status = REJECTED /\ ret.ref \notin ActiveRefs
           ELSE heap[ret.ref].status = STATUS_NEW /\ ret.ref \in ActiveRefs

\* C7: when the risk gate returns false, create_order returns the order with
\* status REJECTED, recorded in history, and leaves the active map unchanged;
\* no margin check is made (a perpetual order is rejected like any other).
C7_RiskRejected ==
    [][(ret' # ret /\ ret'.op = "create_order" /\ ~ret'.risk) =>
          /\ ret'.result = "order"
          /\ heap'[ret'.ref].status = REJECTED
          /\ InDict(order_history', ret'.id)
          /\ Get(order_history', ret'.id) = ret'.ref
          /\ active_orders' = active_orders
          /\ ret'.ref \notin {active_orders'[i].v : i \in DOMAIN active_orders'}]_vars

\* C7 witness: the risk gate has just rejected a perpetual order while another
\* order is active.
C7_Witness ==
    /\ ret.op = "create_order" /\ ~ret.risk /\ ret.trade_type = PERPETUAL
    /\ ret.result = "order" /\ heap[ret.ref].status = REJECTED
    /\ active_orders # <<>>

\* C8: create_order for a risk-approved PERPETUAL order on a symbol with no
\* known position takes the margin as 0 and returns the order REJECTED and
\* recorded in history whenever required_margin > 0, instead of failing.
C8_NoPositionRejects ==
    (/\ ret.op = "create_order" /\ ret.risk /\ ret.trade_type = PERPETUAL
     /\ ret.required > 0
     /\ "BTC" \notin DOMAIN positions.map) =>
        /\ ret.result = "order"
        /\ heap[ret.ref].status = REJECTED
        /\ InDict(order_history, ret.id) /\ Get(order_history, ret.id) = ret.ref

\* C9: when a scan has ended without an exchange failure, every order that
\* was active and older than 30 seconds when it began, that nothing else has
\* updated and whose id no later order has taken, is out of the active map
\* with status CANCELED, and the exchange's cancel was invoked exactly once
\* for it.
C9_ScanCancelsStale ==
    ac.pc \in {"done", AttributeError} =>
        \A ref \in ac.stale :
            (/\ heap[ref].status \in {STATUS_NEW, CANCELED} /\ heap[ref].filled_quantity = 0
             /\ Get(order_history, heap[ref].order_id) = ref) =>
                /\ ref \notin ActiveRefs
                /\ heap[ref].status = CANCELED
                /\ exchange_cancels[heap[ref].order_id] = 1

\* The positions map holding exactly the perpetual entries of a report
Reported(report) == StorePositions(<<>>, report)

\* C10: after sync_positions the position map and the spot-balance map equal
\* exactly what the exchange reported.
C10_SyncOverwrites ==
    sync.pc \in {"done", AttributeError} =>
        /\ positions.attr /\ positions.map = Reported(sync.positions)
        /\ spot_balances.attr /\ spot_balances.map = sync.balances

\* C11: when the risk gate refuses a signal, process_signal constructs no
\* order: it leaves the ledger as it was, spawns no task, adds nothing to the
\* registry, and returns without raising.
C11_RiskRefusalAborts ==
    [][(signal_ret' # signal_ret /\ ~signal_ret'.risk) =>
          /\ signal_ret'.raised = None
          /\ UNCHANGED <<heap, active_orders, order_history, tasks, registry>>]_vars

\* C12: every state a monitor polls is written to the ledger's order of that
\* id; after the first terminal poll the monitor has removed the order's
\* registry entry and ended normally, and after any other poll it sleeps until
\* the next one.
C12_MonitorWritesAndExits ==
    [][\A t \in DOMAIN tasks :
          (tasks[t].coro = MONITOR /\ tasks'[t].answers = tasks[t].answers + 1) =>
             LET id == tasks[t].order_id
                 state == tasks'[t].last
             IN  /\ InDict(active_orders, id) =>
                        heap'[Get(active_orders, id)].status = state
                 /\ IF state \in MonitorTerminal
                    THEN tasks'[t].pc = "done" /\ ~InDict(registry', id)
                    ELSE tasks'[t].pc = "sleep"]_vars

\* C13: once stop() has been called no task spawned by the executor goes on:
\* a task that moves at all is ended by the cancellation, no further
\* get_order_status call is made and no further task is spawned.
C13_StopCancelsAll ==
    [][stopped =>
          /\ Len(tasks') = Len(tasks)
          /\ \A t \in DOMAIN tasks :
                /\ tasks'[t].polls = tasks[t].polls
                /\ tasks'[t] # tasks[t] => tasks'[t].pc = "cancelled"]_vars

\* Fractions compared in lowest terms
RECURSIVE GCD(_, _)
GCD(a, b) == IF b = 0 THEN a ELSE GCD(b, a % b)

Reduced(r) ==
    LET g == GCD(IF r.num < 0 THEN 0 - r.num ELSE r.num, r.den)
    IN  [num |-> r.num \div g, den |-> r.den \div g]

RatioLeq(a, b) == Reduced(a).num * Reduced(b).den <= Reduced(b).num * Reduced(a).den

\* The equity curve of the specification: the initial cash, then the cash
\* after each trade of the ledger in time order
EquityCurve(tr) == [t \in 0..Len(tr) |-> INITIAL_CASH + SumCashChange(SubSeq(tr, 1, t))]

\* The largest equity up to t
RunningPeak(curve, t) ==
    CHOOSE peak \in {curve[u] : u \in 0..t} : \A u \in 0..t : curve[u] <= peak

\* max over all prefixes of (running_peak - equity_t) / running_peak
MaxDrawdown(curve) ==
    LET dd == {Ratio(RunningPeak(curve, t) - curve[t], RunningPeak(curve, t)) :
                  t \in DOMAIN curve}
    IN  CHOOSE m \in dd : \A d \in dd : RatioLeq(d, m)

\* C14: the performance computed for a trade ledger has total_return =
\* (final_cash - initial_cash) / initial_cash and max_drawdown = the largest
\* (running_peak - equity) / running_peak over the equity curve; the curve
\* [100000, 105000, 95000, 110000] gives 10000/105000 and 10%.
C14_Performance ==
    perf.printed =>
        LET curve == EquityCurve(trades)
        IN  /\ Reduced(perf.total_return)
                 = Reduced(Ratio(curve[Len(trades)] - INITIAL_CASH, INITIAL_CASH))
            /\ Reduced(perf.max_drawdown) = Reduced(MaxDrawdown(curve))
            /\ curve = [t \in 0..3 |-> <<100000, 105000, 95000, 110000>>[t + 1]] =>
                   /\ Reduced(perf.max_drawdown) = Reduced(Ratio(10000, 105000))
                   /\ Reduced(perf.total_return) = Reduced(Ratio(10, 100))

\* C16: every statement of create_order, update_order_status, cancel_order,
\* sync_positions and auto_cancel_orders that assigns into the active map, the
\* history, the positions or the spot balances runs while the ledger's lock
\* is held.
C16_WritesUnderLock == unlocked = {}

\* The events a list holds
Range(q) == {q[i] : i \in DOMAIN q}

\* The events the caller pushed, in the order of the add_event calls
InputSeq == [i \in 1..pushed |-> CHOOSE e \in Range(event_queue) : e.seq = i]

\* add_event for each event of evs in turn, every event keeping its number
RECURSIVE PushAll(_, _)
PushAll(q, evs) == IF evs = <<>> THEN q ELSE PushAll(heappush(q, Head(evs)), Tail(evs))

\* A whole run() over the events evs pushed in that order
Replay(evs) == RunLoop(Outcome(PushAll(<<>>, evs), Len(evs), portfolio, trades, None), <<>>)

\* A dispatch sequence as the code has it: events without the push number
Observable(popped) ==
    [i \in DOMAIN popped |->
        [type |-> popped[i].type, timestamp |-> popped[i].timestamp, data |-> popped[i].data]]

\* C15: two runs over the same events pushed in different orders dispatch the
\* same sequence of events and end with the same cash, positions and trades.
C15_ReplayDeterministic ==
    run_state = "setup" =>
        \A p \in Permutations(1..pushed) :
            LET one == Replay(InputSeq)
                other == Replay([i \in 1..pushed |-> InputSeq[p[i]]])
            IN  /\ Observable(one.dispatched) = Observable(other.dispatched)
                /\ one.final.portfolio = other.final.portfolio
                /\ one.final.trades = other.final.trades

\* A step of run() that pops and dispatches an event
Dispatching == Len(dispatched') = Len(dispatched) + 1

\* The event such a step dispatches
Dispatched == dispatched'[Len(dispatched')]

\* What the Signal handler is to enqueue for the signal event ev
ExpectedOrders(ev) ==
    LET symbol == ev.data.symbol
        position == portfolio.positions[symbol]
    IN  IF ev.data.signal = 1
        THEN {[OrderEvent(symbol, "market", BUY_QUANTITY, "buy", ev.timestamp)
                 EXCEPT !.seq = pushed + 1]}
        ELSE IF ev.data.signal = 0 - 1 /\ position > 0
        THEN {[OrderEvent(symbol, "market", position, "sell", ev.timestamp)
                 EXCEPT !.seq = pushed + 1]}
        ELSE {}

\* C17: the Signal handler enqueues, at the signal's timestamp, exactly one
\* market buy order of the default size for direction 1, exactly one market
\* sell order for the whole position for direction -1 when the position is
\* positive, and nothing otherwise; it changes neither cash, positions nor
\* the trades.
C17_SignalEnqueues ==
    [][(Dispatching /\ Dispatched.type = "SIGNAL" /\ "SIGNAL" \in handlers) =>
          LET rest == heappop(event_queue)[2]
          IN  /\ Range(event_queue') \ Range(rest) = ExpectedOrders(Dispatched)
              /\ Range(rest) \subseteq Range(event_queue')
              /\ Len(event_queue') = Len(rest) + Cardinality(ExpectedOrders(Dispatched))
              /\ portfolio' = portfolio
              /\ trades' = trades
              /\ run_state' = "running"]_vars

\* C17 witness: a sell signal has been dispatched on a positive position and
\* the queue holds the sell order for the whole position.
C17_Witness ==
    /\ dispatched # <<>>
    /\ dispatched[Len(dispatched)].type = "SIGNAL"
    /\ dispatched[Len(dispatched)].data.signal = 0 - 1
    /\ run_state = "running"
    /\ \E e \in Range(event_queue) :
          /\ e.type = "ORDER" /\ e.data.side = "sell" /\ e.seq = pushed
          /\ e.data.quantity = portfolio.positions[e.data.symbol]
          /\ e.data.quantity > 0

\* C18: for an Order event with a trade price the Order handler moves the cash
\* by quantity * price and the position of the event's symbol by the quantity
\* (buy: cash down, position up; sell: the reverse), leaves the other
\* positions alone and appends exactly one trade record.
C18_OrderApplied ==
    [][(/\ Dispatching /\ Dispatched.type = "ORDER" /\ "ORDER" \in handlers
        /\ "trade_price" \in DOMAIN Dispatched.data) =>
          LET ev == Dispatched
              quantity == ev.data.filled_quantity
              cost == ev.data.trade_price * quantity
              buy == ev.data.side = "buy"
          IN  /\ portfolio'.cash = IF buy THEN portfolio.cash - cost ELSE portfolio.cash + cost
              /\ portfolio'.positions =
                    [portfolio.positions EXCEPT ![ev.data.symbol] =
                        IF buy THEN @ + quantity ELSE @ - quantity]
              /\ trades' = Append(trades,
                                  [timestamp |-> ev.timestamp, symbol |-> ev.data.symbol,
                                   side |-> ev.data.side, price |-> ev.data.trade_price,
                                   quantity |-> quantity,
                                   cash_change |-> IF buy THEN 0 - cost ELSE cost])
              /\ run_state' = "running"]_vars

\* The MarketData events of a symbol dispatched so far
PricesSeen(symbol) ==
    {i \in DOMAIN dispatched :
        dispatched[i].type = "MARKET" /\ dispatched[i].data.symbol = symbol}

\* C19: a market Order event queued without a price is executed at the price
\* of the last MarketData event dispatched for its symbol; when no such event
\* has been dispatched the handler fails with a data error that ends the run
\* and leaves cash, positions and trades as they were.
C19_MarketOrderPriced ==
    [][(/\ Dispatching /\ Dispatched.type = "ORDER" /\ "ORDER" \in handlers
        /\ Dispatched.data.order_type = "market"
        /\ "trade_price" \notin DOMAIN Dispatched.data) =>
          LET seen == PricesSeen(Dispatched.data.symbol)
              latest == CHOOSE i \in seen : \A j \in seen : j <= i
          IN  IF seen # {}
              THEN /\ run_state' = "running"
                   /\ Len(trades') = Len(trades) + 1
                   /\ trades'[Len(trades')].price = dispatched[latest].data.price
              ELSE /\ run_state' = ValueError
                   /\ portfolio' = portfolio
                   /\ trades' = trades]_vars

\* C20: an event popped while no handler is bound to its type is dropped
\* without an error: portfolio and trades are unchanged and run() goes on with
\* the rest of the queue.
C20_UnboundDropped ==
    [][(Dispatching /\ Dispatched.type \notin handlers) =>
          /\ run_state' = "running"
          /\ portfolio' = portfolio
          /\ trades' = trades
          /\ event_queue' = heappop(event_queue)[2]]_vars

\* C21: when place_order fails inside the submission task, the ledger's order
\* of that id is marked REJECTED and leaves the active map, no monitor is
\* spawned, and the task ends normally: the failure does not leave it.
C21_PlaceFailureRejects ==
    [][\A t \in DOMAIN tasks :
          (/\ tasks[t].coro = SUBMIT /\ tasks[t].pc = "place_order"
           /\ tasks'[t].last = ExchangeError) =>
             LET id == tasks[t].order_id
             IN  /\ tasks'[t].pc = "done"
                 /\ Len(tasks') = Len(tasks)
                 /\ InDict(active_orders, id) =>
                        /\ ~InDict(active_orders', id)
                        /\ heap'[Get(active_orders, id)].status = REJECTED]_vars

\* C22: a get_order_status call that fails inside the monitor loop (the poll
\* ends without an answer) does not end the monitor: the task sleeps until the
\* next polling interval, from where a later terminal answer makes it exit,
\* and the failure changes neither the ledger's orders nor the registry.
C22_PollFailureRetried ==
    [][\A t \in DOMAIN tasks :
          (/\ tasks[t].coro = MONITOR /\ tasks[t].pc = "get_order_status"
           /\ tasks'[t] # tasks[t] /\ tasks'[t].answers = tasks[t].answers
           /\ tasks'[t].pc # "cancelled") =>
             /\ tasks'[t].pc = "sleep"
             /\ UNCHANGED <<heap, active_orders, registry>>]_vars

\* C23: in every state of a backtest the cash is the initial cash plus the
\* cash changes of the recorded trades and each symbol's position is the
\* quantity bought minus the quantity sold in the recorded trades; and only
\* the dispatch of an Order event changes the cash, a position or the trades.
C23_PortfolioMatchesLedger ==
    /\ [](/\ portfolio.cash = INITIAL_CASH + SumCashChange(trades)
          /\ \A s \in Symbols : portfolio.positions[s] = NetPosition(trades, s))
    /\ [][(portfolio' # portfolio \/ trades' # trades) =>
             Dispatching /\ Dispatched.type = "ORDER"]_vars

====
